---- MODULE Spec2Model ----
(***************************************************************************)
(* Cytokine knowledge base: the CSV loader (import_db.py / import_csv.py)  *)
(* and the query service (main.py / local_app.py) over the one table       *)
(* cytokine_effects.                                                       *)
(*                                                                         *)
(* Text is modelled as a sequence of one-character strings, so that        *)
(* "IL-6;IL-10".split(';'), ILIKE '%term%' and sorted() are computed and   *)
(* not assumed.  The alphabet is Chars.  A database NULL / pandas None is  *)
(* the value NULL, which is no text over Chars.                            *)
(***************************************************************************)
EXTENDS Integers, Sequences, FiniteSets, TLC

VARIABLES
    revision,       \* "main": import_db.py + main.py; "local": import_csv.py + local_app.py
    file,           \* the CSV file given to the loader: [header, rows]
    table,          \* public.cytokine_effects: the committed rows, in insertion order
    pc,             \* the loader's position in main()
    chunk_num,      \* chunks of the file consumed so far by import_csv
    rows_imported,  \* import_csv's running counter
    idx_pos,        \* index statements of create_indexes issued so far
    indexes,        \* names of the indexes that exist
    txn_failed,     \* create_indexes' connection holds a failed transaction
    warnings,       \* number of "Index creation warning" lines printed
    verified,       \* verify_import has run its two statements
    exit_code,      \* -1 while the loader runs, then the process's exit code
    error,          \* the step whose exception ended the run, "none" if none did
    resp,           \* the service's last response (with the request that caused it)
    created,        \* public.cytokine_effects exists
    run,            \* runs of the loader started against this database
    refused,        \* index statements the database itself refused in this run
    request,        \* every concurrent request's endpoint and position in its handler
    session,        \* every concurrent request's session: "none", "open", "conn"
    prev            \* the response sent before the last one

vars == <<revision, file, table, pc, chunk_num, rows_imported, idx_pos, indexes,
          txn_failed, warnings, verified, exit_code, error, resp, created, run,
          refused, request, session, prev>>

loader_vars == <<pc, chunk_num, rows_imported, idx_pos, indexes, txn_failed,
                 warnings, verified, exit_code, error, created, run, refused>>

pool_vars == <<request, session>>

-----------------------------------------------------------------------------
(* Bounds of the model *)

\* rows of the source file
MaxRows == 3

\* runs of the loader against one database
MaxRuns == 2

\* requests the service handles at the same time
MaxRequests == 3

\* create_engine(pool_size=20, max_overflow=40), scaled down
pool_size == 1

max_overflow == 0
\* rows per chunk: CHUNK_SIZE (10000 in the source) scaled down
ChunkSize == 2
\* largest page number requested
MaxPage == 3
\* largest limit requested (the source allows up to 500, and 1000 for filters)
MaxLimit == 2

-----------------------------------------------------------------------------
(* Text *)

\* the alphabet, in code-point order: % ; A _ a
Chars == <<"%", ";", "A", "_", "a">>

NULL == <<"NULL">>

IsNull(v) == v = NULL

Ord(c) == CHOOSE i \in 1..Len(Chars) : Chars[i] = c

\* str.lower() / the case folding of ILIKE
Lower(c) == IF c = "A" THEN "a" ELSE c

LowerStr(s) == [i \in 1..Len(s) |-> Lower(s[i])]

\* Python's str < str: lexicographic by code point
RECURSIVE StrLess(_, _)
StrLess(s, t) ==
    IF t = <<>> THEN FALSE
    ELSE IF s = <<>> THEN TRUE
    ELSE IF Head(s) = Head(t) THEN StrLess(Tail(s), Tail(t))
    ELSE Ord(Head(s)) < Ord(Head(t))

\* x.split(';'): the pieces between separators; k separators give k+1 pieces
RECURSIVE Split(_)
Split(s) ==
    IF \A i \in 1..Len(s) : s[i] # ";" THEN <<s>>
    ELSE LET k == CHOOSE i \in 1..Len(s) :
                      s[i] = ";" /\ \A j \in 1..(i-1) : s[j] # ";"
         IN  <<SubSeq(s, 1, k-1)>> \o Split(SubSeq(s, k+1, Len(s)))

\* PostgreSQL's  s LIKE p : % matches any run of characters, _ any one character
RECURSIVE Like(_, _)
Like(s, p) ==
    IF p = <<>> THEN s = <<>>
    ELSE IF Head(p) = "%"
         THEN Like(s, Tail(p)) \/ (s # <<>> /\ Like(Tail(s), p))
         ELSE /\ s # <<>>
              /\ (Head(p) = "_" \/ Head(p) = Head(s))
              /\ Like(Tail(s), Tail(p))

\* column.ilike(f"%{value}%"): NULL ILIKE p is NULL, which filter() treats as false
ilike(cell, value) ==
    /\ ~IsNull(cell)
    /\ Like(LowerStr(cell), LowerStr(<<"%">> \o value \o <<"%">>))

-----------------------------------------------------------------------------
(* Columns *)

\* import_db.py FIELDS
FIELDS ==
    << "chunk_id", "key_sentences", "cell_type", "cytokine_name", "confidence_score",
       "cytokine_effect", "cytokine_effect_original", "regulated_genes",
       "gene_response_type", "regulated_pathways", "pathway_response_type",
       "regulated_cell_processes", "cell_process_category",
       "cell_process_response_type", "species", "necessary_condition",
       "experimental_concentration", "experimental_perturbation",
       "experimental_readout", "experimental_readout_category",
       "experimental_system_type", "experimental_system_details",
       "experimental_time_point", "causality_type", "causality_description",
       "publication_type", "mapped_citation_id", "url" >>

\* import_csv.py FIELDS
FIELDS_csv ==
    << "cytokine_name", "cell_type", "cytokine_effect", "causality_type", "species",
       "chunk_id", "key_sentences", "citation_id" >>

\* main.py ALL_COLUMNS
ALL_COLUMNS ==
    << "id", "chunk_id", "key_sentences", "cell_type", "cytokine_name",
       "confidence_score", "cytokine_effect", "cytokine_effect_original",
       "regulated_genes", "gene_response_type", "regulated_pathways",
       "pathway_response_type", "regulated_cell_processes", "cell_process_category",
       "cell_process_response_type", "species", "necessary_condition",
       "experimental_concentration", "experimental_perturbation",
       "experimental_readout", "experimental_readout_category",
       "experimental_system_type", "experimental_system_details",
       "experimental_time_point", "causality_type", "causality_description",
       "publication_type", "mapped_citation_id", "url" >>

\* local_app.py ALL_COLUMNS
ALL_COLUMNS_local ==
    << "cytokine_name", "cell_type", "cytokine_effect", "causality_type", "species",
       "chunk_id", "key_sentences", "citation_id" >>

Range(seq) == {seq[i] : i \in DOMAIN seq}

\* the attributes of class CytokineInteraction, per revision
CytokineInteraction(rev) ==
    IF rev = "main" THEN Range(ALL_COLUMNS)
    ELSE {"id", "cytokine_name", "cell_type", "cytokine_effect", "causality_type",
          "species", "chunk_id", "key_sentences", "citation_id"}

\* the loader's declared column list, per revision
Fields(rev) == IF rev = "main" THEN FIELDS ELSE FIELDS_csv

\* the service's recognized column list, per revision
AllColumns(rev) == IF rev = "main" THEN ALL_COLUMNS ELSE ALL_COLUMNS_local

\* the columns of CREATE TABLE public.cytokine_effects besides id, per revision
TableColumns(rev) == Range(Fields(rev))

-----------------------------------------------------------------------------
(* The source files the loader is run on *)

\* every column a source file may carry: the declared ones of both revisions and
\* one undeclared column
SourceColumns == Range(FIELDS) \cup Range(FIELDS_csv) \cup {"notes"}

\* a CSV row: the listed cells, every other cell empty (read as NaN, then None)
SourceRow(cells) ==
    [c \in SourceColumns |-> IF c \in DOMAIN cells THEN cells[c] ELSE NULL]

\* the rows the source files are made of
SourceRows ==
    { SourceRow([cytokine_name |-> <<"A", ";", "a", "_">>, cell_type |-> <<"a">>,
                 chunk_id |-> <<"A">>, notes |-> <<"a">>]),
      SourceRow([cytokine_name |-> <<"a", ";">>, species |-> <<"A">>,
                 regulated_genes |-> <<"_", "a">>, experimental_system_type |-> <<"a">>,
                 citation_id |-> <<"a">>]),
      SourceRow([cytokine_name |-> <<"_">>, cytokine_effect |-> <<"A", "a">>,
                 causality_type |-> <<"a">>, publication_type |-> <<"A">>,
                 key_sentences |-> <<"%">>]),
      SourceRow([cell_type |-> <<"A">>, species |-> <<"a">>, chunk_id |-> <<"a">>]) }

\* the headers the source files come with: complete, or lacking one declared column
Headers ==
    { SourceColumns, SourceColumns \ {"cytokine_name"}, SourceColumns \ {"species"} }

SeqsUpTo(S, n) == UNION {[1..k -> S] : k \in 0..n}

Restrict(f, D) == [c \in D |-> f[c]]

Files ==
    { [header |-> h, rows |-> [i \in DOMAIN rs |-> Restrict(rs[i], h)]] :
        h \in Headers, rs \in SeqsUpTo(SourceRows, MaxRows) }

-----------------------------------------------------------------------------
(* The loader: import_db.py, and import_csv.py where it differs *)

Min(a, b) == IF a < b THEN a ELSE b

\* pd.read_csv(csv_file, chunksize=CHUNK_SIZE): a file without data rows yields one
\* empty chunk; otherwise the chunks are the consecutive runs of CHUNK_SIZE rows
NumChunks(f) ==
    IF Len(f.rows) = 0 THEN 1 ELSE (Len(f.rows) + ChunkSize - 1) \div ChunkSize

chunk_iterator(f, k) ==
    SubSeq(f.rows, (k - 1) * ChunkSize + 1, Min(k * ChunkSize, Len(f.rows)))

\* explode that keeps one row per source row, with the first list element
explode_first(chunk) ==
    [i \in DOMAIN chunk |->
        [chunk[i] EXCEPT !["cytokine_name"] = Split(chunk[i]["cytokine_name"])[1]]]

\* chunk.explode("cytokine_name"): one row per list element, in list order, the
\* other cells copied
RECURSIVE explode(_)
explode(chunk) ==
    IF chunk = <<>> THEN <<>>
    ELSE LET row   == Head(chunk)
             names == Split(row["cytokine_name"])
         IN  [i \in 1..Len(names) |-> [row EXCEPT !["cytokine_name"] = names[i]]]
             \o explode(Tail(chunk))

\* chunk["cytokine_name"].apply(lambda x: x.split(';')) raises: KeyError when the
\* column is missing, AttributeError when a cell is None
FanOutRaises(f, chunk) ==
    IF "cytokine_name" \notin f.header THEN TRUE
    ELSE \E i \in DOMAIN chunk : IsNull(chunk[i]["cytokine_name"])

\* the chunk as it stands before the write (import_db.py lines 237-239,
\* import_csv.py line 98)
Transformed(rev, chunk) == IF rev = "main" THEN explode(chunk) ELSE chunk

\* chunk = chunk[FIELDS] raises KeyError when a declared column is missing; it is
\* evaluated only under  if len(chunk)
ProjectRaises(rev, f, rows) ==
    /\ Len(rows) > 0
    /\ \E c \in Range(Fields(rev)) : c \notin f.header

\* the chunk raises before anything is written
ChunkRaises(rev, f, chunk) ==
    IF rev = "main" /\ FanOutRaises(f, chunk) THEN TRUE
    ELSE ProjectRaises(rev, f, Transformed(rev, chunk))

\* one INSERT and commit per row, the chunk's write failing after the first
to_sql_first_row(rev, tbl, rows) ==
    tbl \o [i \in 1..1 |->
              [c \in {"id"} \cup TableColumns(rev) |->
                  IF c = "id" THEN Len(tbl) + i ELSE rows[i][c]]]

\* if_exists='replace': the table is made anew from the chunk
to_sql_replace(rev, tbl, rows) ==
    [i \in 1..Len(rows) |->
        [c \in {"id"} \cup TableColumns(rev) |-> IF c = "id" THEN i ELSE rows[i][c]]]

\* chunk[FIELDS].to_sql(..., if_exists='append'): the rows get the next ids of the
\* BIGSERIAL column and are committed together
to_sql(rev, tbl, rows) ==
    tbl \o [i \in 1..Len(rows) |->
              [c \in {"id"} \cup TableColumns(rev) |->
                  IF c = "id" THEN Len(tbl) + i ELSE rows[i][c]]]

\* the exception is reported but the run goes on with the next step
Abort_swallowed(step) ==
    /\ pc' = "create_indexes"
    /\ exit_code' = exit_code
    /\ error' = step

\* main()'s  except Exception as e: print(f"Error during import: {e}") ... sys.exit(1)
Abort(step) ==
    /\ pc' = "done"
    /\ exit_code' = 1
    /\ error' = step

\* create_tables succeeds
CreateTables ==
    /\ pc = "create_tables"
    /\ pc' = "import_csv"
    /\ created' = TRUE
    /\ UNCHANGED <<revision, file, table, chunk_num, rows_imported, idx_pos, indexes,
                   txn_failed, warnings, verified, exit_code, error, resp,
                   run, refused, pool_vars, prev>>

\* create_tables raises (the database refuses the statement)
CreateTablesFails ==
    /\ pc = "create_tables"
    /\ Abort("create_tables")
    /\ UNCHANGED <<revision, file, table, chunk_num, rows_imported, idx_pos, indexes,
                   txn_failed, warnings, verified, resp,
                   created, run, refused, pool_vars, prev>>

\* one iteration of import_csv's loop, the write included (or skipped for an
\* empty chunk); after the last chunk main() goes on to create_indexes
ImportChunk ==
    /\ pc = "import_csv"
    /\ LET chunk == chunk_iterator(file, chunk_num + 1)
           rows  == Transformed(revision, chunk)
       IN  /\ ~ChunkRaises(revision, file, chunk)
           /\ table' = IF Len(rows) > 0 THEN to_sql(revision, table, rows) ELSE table
           /\ rows_imported' = rows_imported + Len(rows)
    /\ chunk_num' = chunk_num + 1
    /\ pc' = IF chunk_num + 1 = NumChunks(file) THEN "create_indexes" ELSE "import_csv"
    /\ UNCHANGED <<revision, file, idx_pos, indexes, txn_failed, warnings, verified,
                   exit_code, error, resp,
                   created, run, refused, pool_vars, prev>>

\* one iteration of the loop raises before the write: a missing column or a None
\* cytokine_name
ImportChunkRaises ==
    /\ pc = "import_csv"
    /\ ChunkRaises(revision, file, chunk_iterator(file, chunk_num + 1))
    /\ chunk_num' = chunk_num + 1
    /\ Abort("transform")
    /\ UNCHANGED <<revision, file, table, rows_imported, idx_pos, indexes, txn_failed,
                   warnings, verified, resp,
                   created, run, refused, pool_vars, prev>>

\* to_sql raises: the chunk's insert is rolled back as a whole
ImportChunkAppendFails ==
    /\ pc = "import_csv"
    /\ LET chunk == chunk_iterator(file, chunk_num + 1)
       IN  /\ ~ChunkRaises(revision, file, chunk)
           /\ Len(Transformed(revision, chunk)) > 0
    /\ chunk_num' = chunk_num + 1
    /\ Abort("to_sql")
    /\ UNCHANGED <<revision, file, table, rows_imported, idx_pos, indexes, txn_failed,
                   warnings, verified, resp,
                   created, run, refused, pool_vars, prev>>

\* create_indexes' statement list: index name and the column it is built on
indexes_db ==
    << [name |-> "idx_cytokine_name", column |-> "cytokine_name"],
       [name |-> "idx_cell_type", column |-> "cell_type"],
       [name |-> "idx_species", column |-> "species"],
       [name |-> "idx_experimental_system_type", column |-> "experimental_system_type"],
       [name |-> "idx_publication_type", column |-> "publication_type"],
       [name |-> "idx_confidence_score", column |-> "confidence_score"],
       [name |-> "idx_regulated_genes_fts", column |-> "regulated_genes"],
       [name |-> "idx_regulated_pathways_fts", column |-> "regulated_pathways"] >>

indexes_csv ==
    << [name |-> "idx_cytokine_name", column |-> "cytokine_name"],
       [name |-> "idx_cell_type", column |-> "cell_type"],
       [name |-> "idx_species", column |-> "species"],
       [name |-> "idx_causality_type", column |-> "causality_type"],
       [name |-> "idx_experimental_system_type", column |-> "experimental_system_type"],
       [name |-> "idx_publication_type", column |-> "publication_type"],
       [name |-> "idx_confidence_score", column |-> "confidence_score"],
       [name |-> "idx_regulated_genes_fts", column |-> "regulated_genes"],
       [name |-> "idx_regulated_pathways_fts", column |-> "regulated_pathways"] >>

IndexStatements(rev) == IF rev = "main" THEN indexes_db ELSE indexes_csv

\* CREATE INDEX without IF NOT EXISTS: an index of that name is an error too
IndexRaises_if_exists(rev, i) ==
    \/ txn_failed
    \/ IndexStatements(rev)[i].column \notin TableColumns(rev)
    \/ IndexStatements(rev)[i].name \in indexes

\* the statement raises: it names a column the table lacks, or the connection's
\* transaction is already in the failed state; an index that exists already is
\* no error (CREATE INDEX IF NOT EXISTS)
IndexRaises(rev, i) ==
    \/ txn_failed
    \/ IndexStatements(rev)[i].column \notin TableColumns(rev)

AfterIndex(i) == IF i = Len(IndexStatements(revision)) THEN "verify_import"
                 ELSE "create_indexes"

\* one iteration of create_indexes' loop: execute and commit
CreateIndex ==
    /\ pc = "create_indexes"
    /\ ~IndexRaises(revision, idx_pos + 1)
    /\ indexes' = indexes \cup {IndexStatements(revision)[idx_pos + 1].name}
    /\ idx_pos' = idx_pos + 1
    /\ pc' = AfterIndex(idx_pos + 1)
    /\ UNCHANGED <<revision, file, table, chunk_num, rows_imported, txn_failed,
                   warnings, verified, exit_code, error, resp,
                   created, run, refused, pool_vars, prev>>

\* one iteration of create_indexes' loop: the statement raises, a warning is printed
CreateIndexWarns ==
    /\ pc = "create_indexes"
    /\ IndexRaises(revision, idx_pos + 1)
    /\ txn_failed' = TRUE
    /\ warnings' = warnings + 1
    /\ idx_pos' = idx_pos + 1
    /\ pc' = AfterIndex(idx_pos + 1)
    /\ UNCHANGED <<revision, file, table, chunk_num, rows_imported, indexes, verified,
                   exit_code, error, resp,
                   created, run, refused, pool_vars, prev>>

\* verify_import's two statements succeed; main() returns
VerifyImport ==
    /\ pc = "verify_import"
    /\ verified' = TRUE
    /\ pc' = "done"
    /\ exit_code' = 0
    /\ UNCHANGED <<revision, file, table, chunk_num, rows_imported, idx_pos, indexes,
                   txn_failed, warnings, error, resp,
                   created, run, refused, pool_vars, prev>>

\* one of verify_import's statements raises
VerifyImportFails ==
    /\ pc = "verify_import"
    /\ Abort("verify_import")
    /\ UNCHANGED <<revision, file, table, chunk_num, rows_imported, idx_pos, indexes,
                   txn_failed, warnings, verified, resp,
                   created, run, refused, pool_vars, prev>>

\* one iteration of create_indexes' loop: the database refuses a statement that
\* names an existing column on a healthy connection (an index row too large, a
\* value too long for a tsvector, a lock or statement timeout); the except
\* clause prints the warning and does not roll back
CreateIndexRefused ==
    /\ pc = "create_indexes"
    /\ ~IndexRaises(revision, idx_pos + 1)
    /\ refused' = refused \cup {idx_pos + 1}
    /\ txn_failed' = TRUE
    /\ warnings' = warnings + 1
    /\ idx_pos' = idx_pos + 1
    /\ pc' = AfterIndex(idx_pos + 1)
    /\ UNCHANGED <<revision, file, table, chunk_num, rows_imported, indexes, verified,
                   exit_code, error, resp, created, run, pool_vars, prev>>

\* the loader script is started again on the same database with the same file:
\* main() starts over, every connection of the run before is closed
RunAgain ==
    /\ pc = "done"
    /\ run < MaxRuns
    /\ run' = run + 1
    /\ pc' = "create_tables"
    /\ chunk_num' = 0
    /\ rows_imported' = 0
    /\ idx_pos' = 0
    /\ txn_failed' = FALSE
    /\ warnings' = 0
    /\ verified' = FALSE
    /\ exit_code' = -1
    /\ error' = "none"
    /\ refused' = {}
    /\ UNCHANGED <<revision, file, table, indexes, created, resp, pool_vars, prev>>

LoaderNext ==
    \/ CreateTables
    \/ CreateTablesFails
    \/ ImportChunk
    \/ ImportChunkRaises
    \/ ImportChunkAppendFails
    \/ CreateIndex
    \/ CreateIndexWarns
    \/ VerifyImport
    \/ VerifyImportFails

-----------------------------------------------------------------------------
(* The query service: main.py, and local_app.py where it differs *)

\* no response is being sent
NoResponse == [op |-> "none"]

\* the requests in flight, and the position of one that is not being handled
Requesters == 1..MaxRequests

Idle == [op |-> "none", at |-> "idle"]

\* Python truthiness of an Optional[str] parameter: None and "" are false
Truthy(v) == ~IsNull(v) /\ v # <<>>

\* the named filter parameters of get_interactions, per revision
FilterParams(rev) ==
    IF rev = "main"
    THEN {"cytokine_name", "cell_type", "species", "causality_type",
          "experimental_system_type", "publication_type", "regulated_genes"}
    ELSE {"cytokine_name", "cell_type", "species", "causality_type",
          "experimental_system_type", "publication_type"}

\* the filter parameters whose predicate the revision adds to the query when they
\* are supplied: local_app.py adds experimental_system_type and publication_type
\* only  if hasattr(CytokineInteraction, ...)
AppliedParams(rev) ==
    IF rev = "main" THEN FilterParams(rev)
    ELSE {"cytokine_name", "cell_type", "species", "causality_type"}
         \cup ({"experimental_system_type", "publication_type"}
               \cap CytokineInteraction(rev))

\* the filter parameters the revision echoes in  filters  when they are supplied
EchoedParams(rev) == FilterParams(rev)

\* the columns the search clause is ORed over, per revision
SearchColumns(rev) ==
    IF rev = "main"
    THEN {"cytokine_name", "cell_type", "cytokine_effect", "species", "regulated_genes"}
    ELSE {"cytokine_name", "cell_type", "cytokine_effect", "species"}

\* the WHERE clause get_interactions composes: the filter() calls are ANDed
Predicate(rev, req, row) ==
    /\ \A p \in AppliedParams(rev) :
           Truthy(req.params[p]) => ilike(row[p], req.params[p])
    /\ Truthy(req.params["search"]) =>
           \E c \in SearchColumns(rev) : ilike(row[c], req.params["search"])

\* the filters dict get_interactions returns
filters(rev, req) ==
    LET echoed == {p \in EchoedParams(rev) \cup {"search"} : Truthy(req.params[p])}
    IN  [p \in echoed |-> req.params[p]]

\* f.strip() of one comma-separated piece of  fields ; a piece is a sequence of
\* tokens, each a blank or a name
RECURSIVE lstrip(_)
lstrip(item) ==
    IF item # <<>> /\ Head(item) = " " THEN lstrip(Tail(item)) ELSE item

RECURSIVE rstrip(_)
rstrip(item) ==
    IF item # <<>> /\ item[Len(item)] = " "
    THEN rstrip(SubSeq(item, 1, Len(item) - 1)) ELSE item

strip(item) == rstrip(lstrip(item))

\* the stripped piece is one of the names: the name; otherwise no name at all
NameOf(item) == IF Len(strip(item)) = 1 THEN strip(item)[1] ELSE "?"

\* requested_fields that ignores the fields parameter
requested_fields_ignored(rev, fields) == Range(AllColumns(rev))

\* requested_fields, as the set of keys of every returned item
requested_fields(rev, fields) ==
    IF IsNull(fields) \/ fields = <<>> THEN Range(AllColumns(rev))
    ELSE LET names == {NameOf(fields[i]) : i \in DOMAIN fields}
         IN  IF rev = "main"
             THEN names \cap Range(ALL_COLUMNS)
             ELSE {"id"} \cup {f \in names \cap Range(ALL_COLUMNS_local) : f # "id"}

\* the sequences of n distinct elements of S: the pages a statement without
\* ORDER BY may return
RECURSIVE InjSeqs(_, _)
InjSeqs(S, n) ==
    IF n = 0 THEN {<<>>}
    ELSE UNION {{<<x>> \o t : t \in InjSeqs(S \ {x}, n - 1)} : x \in S}

Max(a, b) == IF a > b THEN a ELSE b

\* the indices of the rows the query selects
Selected(rev, tbl, req) == {i \in DOMAIN tbl : Predicate(rev, req, tbl[i])}

\* total_pages rounded down instead of up
total_pages_floor(total, limit) == total \div limit

\* "total_pages": (total + limit - 1) // limit
total_pages(total, limit) == (total + limit - 1) \div limit

\* GET /api/interactions; either statement may raise, which the framework
\* answers with status 500
get_interactions(req) ==
    /\ req.page >= 1
    /\ req.limit >= 1 /\ req.limit <= 500
    /\ LET sel    == Selected(revision, table, req)
           total  == Cardinality(sel)
           offset == (req.page - 1) * req.limit
           keys   == requested_fields(revision, req.fields)
       IN  \/ resp' = [op |-> "get_interactions", status |-> 500, req |-> req]
           \/ \E results \in InjSeqs(sel, Max(0, Min(req.limit, total - offset))) :
             resp' = [op |-> "get_interactions",
                      status |-> 200,
                      req |-> req,
                      data |-> [i \in DOMAIN results |->
                                  [f \in keys |-> table[results[i]][f]]],
                      rows |-> results,
                      pagination |-> [page |-> req.page,
                                      limit |-> req.limit,
                                      total |-> total,
                                      total_pages |-> total_pages(total, req.limit)],
                      filters |-> filters(revision, req),
                      statements |-> 2]

\* Python's sorted() on the values of one column: ids are integers, the rest text
RECURSIVE sorted(_, _)
sorted(values, column) ==
    IF values = {} THEN <<>>
    ELSE LET least == CHOOSE x \in values : \A y \in values \ {x} :
                          IF column = "id" THEN x < y ELSE StrLess(x, y)
         IN  <<least>> \o sorted(values \ {least}, column)

\* the falsy values dropped by  if v[0] : the empty text and the number 0
Falsy(v, column) == IF column = "id" THEN v = 0 ELSE v = <<>>

\* SELECT DISTINCT col ... WHERE col IS NOT NULL (the primary key is never NULL)
DistinctNotNull(tbl, column) ==
    IF column = "id" THEN {tbl[i]["id"] : i \in DOMAIN tbl}
    ELSE {tbl[i][column] : i \in DOMAIN tbl} \ {NULL}

\* the subsets of S with n elements: what LIMIT n may keep of an unordered result
SubsetsOfSize(S, n) == {T \in SUBSET S : Cardinality(T) = n}

\* the column checked against the mapped class instead of ALL_COLUMNS
Recognized_by_class(rev, column) == column \in CytokineInteraction(rev)

\* column in ALL_COLUMNS
Recognized(rev, column) == column \in Range(AllColumns(rev))

\* GET /api/filters/{column}; the statement may raise, which the framework answers
\* with status 500
get_filter_options(column, limit) ==
    /\ limit >= 1 /\ limit <= 1000
    /\ IF ~Recognized(revision, column)
       THEN resp' = [op |-> "get_filter_options", status |-> 400, column |-> column,
                     limit |-> limit, session |-> FALSE, statements |-> 0]
       ELSE IF column \notin CytokineInteraction(revision)
       THEN resp' = [op |-> "get_filter_options", status |-> 400, column |-> column,
                     limit |-> limit, session |-> TRUE, statements |-> 0]
       ELSE LET all == DistinctNotNull(table, column)
            IN  \/ resp' = [op |-> "get_filter_options", status |-> 500,
                             column |-> column, limit |-> limit, session |-> TRUE,
                             statements |-> 1]
                \/ \E kept \in SubsetsOfSize(all, Min(limit, Cardinality(all))) :
                  resp' = [op |-> "get_filter_options", status |-> 200,
                           column |-> column, limit |-> limit, session |-> TRUE,
                           statements |-> 1,
                           values |-> sorted({v \in kept : ~Falsy(v, column)}, column)]

\* GET /
root ==
    resp' = [op |-> "root", status |-> 200, statements |-> 0,
             message |-> "Cytokine Knowledgebase API", version |-> "1.0.0"]

\* GET /api/columns
get_columns ==
    resp' = [op |-> "get_columns", status |-> 200, statements |-> 0,
             columns |-> AllColumns(revision)]

\* GET /api/stats (local_app.py only); a statement may raise
get_stats ==
    /\ revision = "local"
    /\ \/ resp' = [op |-> "get_stats", status |-> 500]
       \/ resp' = [op |-> "get_stats", status |-> 200, statements |-> 4,
                total_interactions |-> Len(table),
                unique_cytokines |-> Cardinality(DistinctNotNull(table, "cytokine_name")),
                unique_cell_types |-> Cardinality(DistinctNotNull(table, "cell_type")),
                unique_species |-> Cardinality(DistinctNotNull(table, "species"))]

-----------------------------------------------------------------------------
(* The requests the service is sent *)

\* the values given to the filter parameters and to search
Terms == { <<>>, <<"A">>, <<"_">> }

\* no parameter supplied
NoParams(rev) == [p \in FilterParams(rev) \cup {"search"} |-> NULL]

\* the settings of the parameters that supply at most two of them, a pair of them
\* non-empty
ParamSettings(rev) ==
    LET P == FilterParams(rev) \cup {"search"}
    IN  {NoParams(rev)}
        \cup {[NoParams(rev) EXCEPT ![p] = t] : p \in P, t \in Terms}
        \cup {[NoParams(rev) EXCEPT ![p] = t, ![q] = u] :
                 p \in P, q \in P, t \in Terms \ {<<>>}, u \in Terms \ {<<>>}}

\* the values given to  fields , each the list of its comma-separated pieces
FieldLists ==
    { NULL,
      <<>>,
      << <<"cytokine_name">>, <<"bogus_field">> >>,
      << <<" ", "id">>, <<"cell_type", " ">> >>,
      << <<>>, <<"species">>, <<"species">> >>,
      << <<"citation_id">>, <<"url">> >> }

Request(page, limit, fields, params) ==
    [page |-> page, limit |-> limit, fields |-> fields, params |-> params]

\* the requests to /api/interactions: every page and limit with few filters,
\* every setting of the filters on the first row, every fields value
Requests(rev) ==
    {Request(pg, lm, NULL, ps) :
        pg \in 1..MaxPage, lm \in 1..MaxLimit,
        ps \in {NoParams(rev),
                [NoParams(rev) EXCEPT !["cell_type"] = <<"A">>],
                [NoParams(rev) EXCEPT !["search"] = <<"_">>]}}
    \cup {Request(1, 1, NULL, ps) : ps \in ParamSettings(rev)}
    \cup {Request(1, 1, fl, NoParams(rev)) : fl \in FieldLists}

\* the column names asked of /api/filters/{column}
ColumnNames == Range(ALL_COLUMNS) \cup Range(ALL_COLUMNS_local) \cup {"not_a_column"}

\* the service is started once the loader has run; a request is taken up when the
\* response to the one before has been sent
Serving == pc = "done" /\ exit_code = 0 /\ resp = NoResponse

GetInteractions ==
    /\ Serving
    /\ \E req \in Requests(revision) : get_interactions(req)
    /\ UNCHANGED <<revision, file, table, loader_vars, pool_vars, prev>>

GetFilterOptions ==
    /\ Serving
    /\ \E column \in ColumnNames, limit \in 1..MaxLimit : get_filter_options(column, limit)
    /\ UNCHANGED <<revision, file, table, loader_vars, pool_vars, prev>>

Root ==
    /\ Serving
    /\ root
    /\ UNCHANGED <<revision, file, table, loader_vars, pool_vars, prev>>

GetColumns ==
    /\ Serving
    /\ get_columns
    /\ UNCHANGED <<revision, file, table, loader_vars, pool_vars, prev>>

GetStats ==
    /\ Serving
    /\ get_stats
    /\ UNCHANGED <<revision, file, table, loader_vars, pool_vars, prev>>

\* the response is sent to the client
Reply ==
    /\ pc = "done" /\ exit_code = 0
    /\ resp # NoResponse
    /\ resp' = NoResponse
    /\ UNCHANGED <<revision, file, table, loader_vars, pool_vars, prev>>

ServiceNext ==
    \/ Reply
    \/ GetInteractions
    \/ GetFilterOptions
    \/ Root
    \/ GetColumns
    \/ GetStats

-----------------------------------------------------------------------------

Init ==
    /\ revision \in {"main", "local"}
    /\ file \in Files
    /\ table = <<>>
    /\ pc = "create_tables"
    /\ chunk_num = 0
    /\ rows_imported = 0
    /\ idx_pos = 0
    /\ indexes = {}
    /\ txn_failed = FALSE
    /\ warnings = 0
    /\ verified = FALSE
    /\ exit_code = -1
    /\ error = "none"
    /\ resp = NoResponse
    /\ created = FALSE
    /\ run = 1
    /\ refused = {}
    /\ request = [r \in Requesters |-> Idle]
    /\ session = [r \in Requesters |-> "none"]
    /\ prev = NoResponse

Next == LoaderNext \/ ServiceNext

Spec == Init /\ [][Next]_vars

\* the loader alone, run up to MaxRuns times on one database, with index statements
\* the database may refuse
NextLoader == LoaderNext \/ CreateIndexRefused \/ RunAgain

SpecLoader == Init /\ [][NextLoader]_vars

\* a statement of a request handled while the loader runs (READ COMMITTED): it
\* sees the rows committed up to now
SelectDuringLoad ==
    /\ created
    /\ pc \in {"import_csv", "create_indexes", "verify_import"}
    /\ resp = NoResponse
    /\ resp' = [op |-> "select", visible |-> table]
    /\ UNCHANGED <<revision, file, table, loader_vars, pool_vars, prev>>

\* the statement's result is taken by the handler
SelectDone ==
    /\ resp.op = "select"
    /\ resp' = NoResponse
    /\ UNCHANGED <<revision, file, table, loader_vars, pool_vars, prev>>

\* the service reads while the loader writes
NextReaders == LoaderNext \/ SelectDuringLoad \/ SelectDone

SpecReaders == Init /\ [][NextReaders]_vars

\* the requests of a client that pages through the whole table
PagingRequests(rev) ==
    {Request(pg, lm, NULL, NoParams(rev)) : pg \in 1..MaxPage, lm \in 1..MaxLimit}

GetPage ==
    /\ Serving
    /\ \E req \in PagingRequests(revision) : get_interactions(req)
    /\ UNCHANGED <<revision, file, table, loader_vars, pool_vars, prev>>

\* the response is sent to the client, which keeps it
ReplyPage ==
    /\ pc = "done" /\ exit_code = 0
    /\ resp # NoResponse
    /\ prev' = resp
    /\ resp' = NoResponse
    /\ UNCHANGED <<revision, file, table, loader_vars, pool_vars>>

\* the loader's run, then a client paging through the table
NextPaging == LoaderNext \/ GetPage \/ ReplyPage

SpecPaging == Init /\ [][NextPaging]_vars

-----------------------------------------------------------------------------
(* Properties of get_interactions *)

\* a successful response of get_interactions is being sent
Listed == resp.op = "get_interactions" /\ resp.status = 200

\* the text holds the value as a literal substring, case ignored
Contains(cell, value) ==
    /\ ~IsNull(cell)
    /\ \E k \in 0..(Len(cell) - Len(value)) :
           \A j \in 1..Len(value) : Lower(cell[k + j]) = Lower(value[j])

\* C1: for every table content, filter set, page >= 1 and limit, total is the
\* number of rows matching the predicate, total_pages is ceil(total / limit), at
\* most limit items are returned, exactly limit items on every page before the
\* last one, and no item on a page beyond total_pages.
C1_Pagination ==
    Listed =>
        LET total == Cardinality({i \in DOMAIN table :
                                     Predicate(revision, resp.req, table[i])})
            limit == resp.req.limit
            page  == resp.req.page
            pages == resp.pagination.total_pages
        IN  /\ resp.pagination.total = total
            /\ pages * limit >= total
            /\ (pages - 1) * limit < total
            /\ Len(resp.data) <= limit
            /\ page < pages => Len(resp.data) = limit
            /\ page > pages => Len(resp.data) = 0

\* C1: a last page that is not full, after a full first page
C1_Witness ==
    /\ Listed
    /\ resp.req.page = 2 /\ resp.req.limit = 2
    /\ resp.pagination.total = 3 /\ resp.pagination.total_pages = 2
    /\ Len(resp.data) = 1

\* the row holds, in the column of every supplied named filter, the filter's value
\* as a literal substring
HoldsAllFilters(rev, req, row) ==
    \A p \in FilterParams(rev) : Truthy(req.params[p]) => Contains(row[p], req.params[p])

\* C2 (main.py): with named filters supplied, whatever their values (the
\* characters % and _ included), a row is counted in total and may be returned if
\* and only if every supplied filter's column holds the filter's value as a literal
\* substring, case ignored.
C2_LiteralSubstring ==
    (Listed /\ revision = "main" /\ ~Truthy(resp.req.params["search"])) =>
        LET holding == {i \in DOMAIN table : HoldsAllFilters(revision, resp.req, table[i])}
        IN  /\ resp.pagination.total = Cardinality(holding)
            /\ \A k \in DOMAIN resp.rows : resp.rows[k] \in holding

\* C3: with search supplied, the rows selected are those that pass the named
\* filters and hold the search term, as a literal substring with case ignored, in
\* at least one of the designated columns.
C3_SearchAnyColumn ==
    (Listed /\ Truthy(resp.req.params["search"])) =>
        LET named   == [resp.req EXCEPT !.params["search"] = NULL]
            holding == {i \in DOMAIN table :
                          /\ Predicate(revision, named, table[i])
                          /\ \E c \in SearchColumns(revision) :
                                 Contains(table[i][c], resp.req.params["search"])}
        IN  /\ resp.pagination.total = Cardinality(holding)
            /\ \A k \in DOMAIN resp.rows : resp.rows[k] \in holding

\* the names asked for in  fields , blanks around them removed
Requested(fields) == {NameOf(fields[i]) : i \in DOMAIN fields}

\* C4 as claimed: the keys of every returned item are the recognized names among
\* the requested ones, and the full recognized column set when fields is absent
\* (or the empty text).
C4_RecognizedRequestedOnly ==
    Listed =>
        \A k \in DOMAIN resp.data :
            DOMAIN resp.data[k] =
                IF IsNull(resp.req.fields) \/ resp.req.fields = <<>>
                THEN Range(AllColumns(revision))
                ELSE Requested(resp.req.fields) \cap Range(AllColumns(revision))

\* C4 amended: the keys of every returned item are the full recognized column set
\* when fields is absent or empty; otherwise the recognized names among the
\* requested ones, to which local_app.py always adds id.
C4_Fields ==
    Listed =>
        \A k \in DOMAIN resp.data :
            DOMAIN resp.data[k] =
                IF IsNull(resp.req.fields) \/ resp.req.fields = <<>>
                THEN Range(AllColumns(revision))
                ELSE (Requested(resp.req.fields) \cap Range(AllColumns(revision)))
                     \cup (IF revision = "local" THEN {"id"} ELSE {})

\* C4: local_app.py answers fields=cytokine_name,bogus_field with an item that
\* carries cytokine_name and id
C4_Witness ==
    /\ Listed
    /\ revision = "local"
    /\ resp.req.fields = << <<"cytokine_name">>, <<"bogus_field">> >>
    /\ Len(resp.data) = 1
    /\ DOMAIN resp.data[1] = {"id", "cytokine_name"}

\* C5: filters echoes a parameter if and only if it was supplied non-empty and its
\* predicate was added to the query.
C5_EchoOnlyApplied ==
    Listed =>
        DOMAIN resp.filters =
            {p \in AppliedParams(revision) \cup {"search"} : Truthy(resp.req.params[p])}

-----------------------------------------------------------------------------
(* Properties of get_filter_options *)

\* C6: for a recognized column the list returned is sorted ascending without
\* duplicates, holds only values stored in the column, no null, at most limit of
\* them, and all distinct non-null stored values when those are at most limit.
C6_DistinctSortedValues ==
    (resp.op = "get_filter_options" /\ resp.status = 200) =>
        LET stored == DistinctNotNull(table, resp.column)
            values == resp.values
        IN  /\ \A i \in DOMAIN values : \A j \in DOMAIN values :
                   i < j => IF resp.column = "id" THEN values[i] < values[j]
                            ELSE StrLess(values[i], values[j])
            /\ Range(values) \subseteq stored
            /\ Len(values) <= resp.limit
            /\ Cardinality(stored) <= resp.limit => Range(values) = stored

\* C7: a column name outside the recognized set is answered with status 400, never
\* 500, and without any database statement.
C7_UnknownColumnIs400 ==
    (resp.op = "get_filter_options" /\ resp.column \notin Range(AllColumns(revision))) =>
        /\ resp.status = 400
        /\ resp.statements = 0
        /\ ENABLED Reply

\* C7: /api/filters/not_a_column was answered
C7_Witness ==
    /\ resp.op = "get_filter_options"
    /\ resp.column = "not_a_column"
    /\ resp.status = 400

-----------------------------------------------------------------------------
(* Properties of the loader *)

\* the positions of the separators in a cytokine_name cell
Separators(s) == {i \in 1..Len(s) : s[i] = ";"}

\* the number of values a cytokine_name cell lists
Listing(rev, row) ==
    IF rev = "main" THEN Cardinality(Separators(row["cytokine_name"])) + 1 ELSE 1

\* the j-th value the cell lists: the text between separator j-1 and separator j
Listed_value(rev, row, j) ==
    IF rev # "main" THEN row["cytokine_name"]
    ELSE LET s   == row["cytokine_name"]
             nth(k) == CHOOSE p \in Separators(s) :
                           Cardinality({q \in Separators(s) : q < p}) = k - 1
             from == IF j = 1 THEN 0 ELSE nth(j - 1)
             to   == IF j = Cardinality(Separators(s)) + 1 THEN Len(s) + 1 ELSE nth(j)
         IN  SubSeq(s, from + 1, to - 1)

\* the number of stored rows the source rows before row i account for
RECURSIVE StoredBefore(_, _)
StoredBefore(rev, i) ==
    IF i = 1 THEN 0 ELSE StoredBefore(rev, i - 1) + Listing(rev, file.rows[i - 1])

\* the table holds the first m source rows, each as one stored row per listed
\* value in list order and equal to the source row in every other declared column
StoredInFull(rev, m) ==
    /\ Len(table) = StoredBefore(rev, m + 1)
    /\ \A i \in 1..m : \A j \in 1..Listing(rev, file.rows[i]) :
           LET row == table[StoredBefore(rev, i) + j]
           IN  /\ row["cytokine_name"] = Listed_value(rev, file.rows[i], j)
               /\ \A c \in Range(Fields(rev)) \ {"cytokine_name"} :
                      row[c] = file.rows[i][c]

\* the source rows of the chunks written so far
RowsWritten ==
    IF pc = "create_tables" \/ error = "create_tables" THEN 0
    ELSE IF pc = "import_csv" THEN Min(chunk_num * ChunkSize, Len(file.rows))
    ELSE IF error \in {"transform", "to_sql"}
         THEN Min((chunk_num - 1) * ChunkSize, Len(file.rows))
    ELSE Len(file.rows)

\* C8 (import_db.py): every source row written, whose cytokine_name lists k values,
\* is stored as exactly k rows, one per value in list order, equal to the source
\* row in every other column; the stored row count is the sum of the k.
C8_FanOut ==
    revision = "main" => StoredInFull("main", RowsWritten)

\* C8: a 3-row file whose row 2 lists two values is stored as 4 rows
C8_Witness ==
    /\ revision = "main"
    /\ pc = "done" /\ exit_code = 0
    /\ Len(file.rows) = 3
    /\ Listing("main", file.rows[1]) = 1
    /\ Listing("main", file.rows[2]) = 2
    /\ Listing("main", file.rows[3]) = 1
    /\ Len(table) = 4

\* C9 (import_db.py): when the source file lacks a declared column the run aborts
\* with a nonzero exit code, no row of the file is written, and neither index
\* creation nor verification is run.
C9_MissingColumnAborts ==
    (revision = "main" /\ \E c \in Range(FIELDS) : c \notin file.header) =>
        /\ pc \notin {"create_indexes", "verify_import"}
        /\ pc = "done" => exit_code # 0
        /\ table = <<>>
        /\ idx_pos = 0
        /\ ~verified

\* C10: once the append of batch k has failed the run is over: exit code nonzero,
\* batches 1..k-1 stored in full, no index statement issued, no verification, and
\* nothing of the loader's state or of the table changes afterwards (no retry, no
\* later batch read or written).
C10_AppendFailureAborts ==
    /\ [](error = "to_sql" =>
            /\ pc = "done"
            /\ exit_code # 0 /\ exit_code # -1
            /\ StoredInFull(revision, Min((chunk_num - 1) * ChunkSize, Len(file.rows)))
            /\ idx_pos = 0 /\ indexes = {}
            /\ ~verified)
    /\ [][error = "to_sql" => UNCHANGED <<table, loader_vars>>]_vars

\* C10: the append of the second batch failed, the first batch is stored
C10_Witness ==
    /\ error = "to_sql"
    /\ chunk_num = 2
    /\ Len(table) >= ChunkSize

-----------------------------------------------------------------------------
(* Concurrent requests of main.py: get_db and the engine's connection pool *)

\* the requests inside get_db's with block
InScope == {r \in Requesters : request[r].at # "idle"}

\* QueuePool.checkedout(): connections handed out and not yet returned
checkedout == Cardinality({r \in Requesters : session[r] = "conn"})

\* the session is closed only if it never took a connection
close_without_release(s, r) == IF s[r] = "conn" THEN s ELSE [s EXCEPT ![r] = "none"]

\* get_db's  finally: db.close() : the session ends and its connection, if it
\* holds one, goes back to the pool
close(s, r) == [s EXCEPT ![r] = "none"]

\* the with block is left, by return or by an exception
Leave(r) ==
    /\ request' = [request EXCEPT ![r] = Idle]
    /\ session' = close(session, r)

\* a handler enters  with get_db() as db : SessionLocal() makes a session, which
\* takes no connection before its first statement.  get_filter_options is past
\* its first check here; its second one (getattr gives None) cannot raise, every
\* name of ALL_COLUMNS being an attribute of CytokineInteraction
Enter(r) ==
    /\ request[r] = Idle
    /\ \E op \in {"get_interactions", "get_filter_options"} :
           request' = [request EXCEPT ![r] = [op |-> op, at |-> "session"]]
    /\ session' = [session EXCEPT ![r] = "open"]
    /\ UNCHANGED <<revision, file, table, loader_vars, resp, prev>>

\* the handler's first statement (query.count(), or the distinct query): the
\* session checks a connection out of the pool and keeps it
FirstStatement(r) ==
    /\ request[r].at = "session"
    /\ checkedout < pool_size + max_overflow
    /\ session' = [session EXCEPT ![r] = "conn"]
    /\ request' = [request EXCEPT ![r].at =
                      IF request[r].op = "get_interactions" THEN "counted" ELSE "fetched"]
    /\ UNCHANGED <<revision, file, table, loader_vars, resp, prev>>

\* the pool is exhausted and stays so for pool_timeout seconds: TimeoutError
PoolTimeout(r) ==
    /\ request[r].at = "session"
    /\ checkedout = pool_size + max_overflow
    /\ Leave(r)
    /\ UNCHANGED <<revision, file, table, loader_vars, resp, prev>>

\* get_interactions' second statement, query.offset(offset).limit(limit).all()
SecondStatement(r) ==
    /\ request[r].at = "counted"
    /\ request' = [request EXCEPT ![r].at = "fetched"]
    /\ UNCHANGED <<revision, file, table, loader_vars, resp, prev, session>>

\* a statement raises (connection lost, statement refused)
StatementFails(r) ==
    /\ request[r].at \in {"session", "counted"}
    /\ Leave(r)
    /\ UNCHANGED <<revision, file, table, loader_vars, resp, prev>>

\* the handler returns its result from inside the with block
Return(r) ==
    /\ request[r].at = "fetched"
    /\ Leave(r)
    /\ UNCHANGED <<revision, file, table, loader_vars, resp, prev>>

\* the service is up after a successful load of a file without rows
InitPool ==
    /\ revision = "main"
    /\ file = [header |-> SourceColumns, rows |-> <<>>]
    /\ table = <<>>
    /\ pc = "done"
    /\ chunk_num = NumChunks(file)
    /\ rows_imported = 0
    /\ idx_pos = Len(indexes_db)
    /\ indexes = {indexes_db[i].name : i \in DOMAIN indexes_db}
    /\ txn_failed = FALSE
    /\ warnings = 0
    /\ verified = TRUE
    /\ exit_code = 0
    /\ error = "none"
    /\ resp = NoResponse
    /\ created = TRUE
    /\ run = 1
    /\ refused = {}
    /\ request = [r \in Requesters |-> Idle]
    /\ session = [r \in Requesters |-> "none"]
    /\ prev = NoResponse

NextPool ==
    \E r \in Requesters :
        \/ Enter(r)
        \/ FirstStatement(r)
        \/ PoolTimeout(r)
        \/ SecondStatement(r)
        \/ StatementFails(r)
        \/ Return(r)

SpecPool == InitPool /\ [][NextPool]_vars

\* C12 as stated: the number of checked-out connections equals the number of
\* requests inside the get_db scope in every state, never exceeds pool_size +
\* max_overflow, and is zero when no request is in the scope
C12_ConnectionPerRequest ==
    /\ checkedout = Cardinality(InScope)
    /\ checkedout <= pool_size + max_overflow
    /\ InScope = {} => checkedout = 0

\* C12, amended: a request is inside the scope exactly while it has its one
\* session, which holds at most one connection, taken at the first statement and
\* given back on every way out; so the checked-out connections never exceed the
\* requests inside the scope nor pool_size + max_overflow, and none is checked
\* out when no request is inside the scope
C12_SessionPerRequest ==
    /\ \A r \in Requesters : request[r].at # "idle" <=> session[r] # "none"
    /\ \A r \in Requesters : session[r] = "conn" <=> request[r].at \in {"counted", "fetched"}
    /\ checkedout <= Cardinality(InScope)
    /\ checkedout <= pool_size + max_overflow
    /\ InScope = {} => checkedout = 0

\* the pool is exhausted while one more request is inside the scope with a
\* session that holds no connection, and a third one is outside the scope
C12_Witness ==
    /\ checkedout = pool_size + max_overflow
    /\ \E r \in Requesters : request[r].at = "session" /\ session[r] = "open"
    /\ \E r \in Requesters : request[r] = Idle /\ session[r] = "none"

-----------------------------------------------------------------------------
(* Properties of create_tables, create_indexes and verify_import *)

\* statement i of this run's create_indexes would succeed taken by itself: its
\* column exists and the database did not refuse it
SucceedsAlone(i) ==
    /\ IndexStatements(revision)[i].column \in TableColumns(revision)
    /\ i \notin refused

\* C11: in create_indexes a failing statement is a warning only: every later
\* statement is still issued, none of them that would succeed by itself fails
\* because of the earlier failure, and the run goes on to verify_import and,
\* when that succeeds, exits with code 0
C11_IndexFailureIsolated ==
    /\ \A i \in 1..idx_pos :
           SucceedsAlone(i) => IndexStatements(revision)[i].name \in indexes
    /\ warnings > 0 => error \in {"none", "verify_import"}
    /\ (warnings > 0 /\ pc = "done" /\ error = "none") =>
           /\ idx_pos = Len(IndexStatements(revision))
           /\ verified
           /\ exit_code = 0

\* C13: create_tables and create_indexes are idempotent: on a database where the
\* table exists, create_tables changes neither the table nor its rows nor the
\* indexes, and a statement of create_indexes whose index exists already, issued
\* on a healthy connection, raises nothing (no warning) and changes neither the
\* indexes nor the rows
C13_IdempotentCreation ==
    [][ /\ (pc = "create_tables" /\ created /\ pc' = "import_csv") =>
              (created' /\ table' = table /\ indexes' = indexes /\ error' = "none")
        /\ ( /\ pc = "create_indexes"
             /\ idx_pos' = idx_pos + 1
             /\ ~txn_failed
             /\ idx_pos' \notin refused'
             /\ IndexStatements(revision)[idx_pos'].name \in indexes ) =>
              ( /\ warnings' = warnings
                /\ ~txn_failed'
                /\ indexes' = indexes
                /\ table' = table
                /\ created' ) ]_vars

\* a later run has issued its first index statement without a warning on a
\* database that holds rows and already had every index
C13_Witness ==
    /\ run > 1
    /\ created
    /\ pc = "create_indexes"
    /\ idx_pos = 1
    /\ warnings = 0
    /\ Len(table) > 0
    /\ indexes = {IndexStatements(revision)[i].name : i \in DOMAIN IndexStatements(revision)}

\* C15: verify_import never fails the run: whatever its two statements do, an
\* error raised by one of them included, a run that reached verify_import ends
\* with exit code 0
C15_VerifyNeverFails ==
    (pc = "done" /\ error \notin {"create_tables", "transform", "to_sql"}) =>
        exit_code = 0

\* C16: an empty cell of any column, cytokine_name included, is stored as NULL and
\* its row is ingested: on a file with every declared column no chunk raises
\* before the write, and the rows written are stored in full, a row with an empty
\* cytokine_name as one row with a NULL cytokine_name
C16_EmptyCellsStoredNull ==
    Range(Fields(revision)) \subseteq file.header =>
        /\ error # "transform"
        /\ StoredInFull(revision, RowsWritten)

-----------------------------------------------------------------------------
(* Properties of the service as a whole *)

\* C14: no call of an endpoint, answered or failed, changes the stored rows (nor
\* the table's existence or its indexes); the table changes only in the loader's
\* import_csv step, and then by rows added after the ones stored, which keep
\* their identifiers and values
C14_ServiceReadOnly ==
    [][ /\ resp' # resp =>
              (table' = table /\ created' = created /\ indexes' = indexes)
        /\ table' # table =>
              /\ pc = "import_csv"
              /\ Len(table') > Len(table)
              /\ SubSeq(table', 1, Len(table)) = table ]_vars

\* a request on a table that holds rows has failed
C14_Witness ==
    /\ Len(table) > 0
    /\ resp # NoResponse
    /\ resp.status = 500

-----------------------------------------------------------------------------
(* Properties of reading while the loader writes *)

\* the last source row of batch j
BatchEnd(j) == Min(j * ChunkSize, Len(file.rows))

\* the batches written in full so far
BatchesWritten == {j \in 0..NumChunks(file) : BatchEnd(j) <= RowsWritten}

\* C17: batches become visible atomically: in every state the committed rows are
\* the complete fan-out of the source rows of the first j batches for some j
\* (so the stored rows of one source row are all in one batch), and what a
\* statement issued during the load saw is such a content too
C17_BatchesVisibleAtomically ==
    /\ \E j \in BatchesWritten : StoredInFull(revision, BatchEnd(j))
    /\ resp.op = "select" =>
           \E j \in BatchesWritten :
               /\ Len(resp.visible) = StoredBefore(revision, BatchEnd(j) + 1)
               /\ resp.visible = SubSeq(table, 1, Len(resp.visible))

\* a statement issued between the first and the second batch saw the first
\* batch, which holds more stored rows than source rows
C17_Witness ==
    /\ revision = "main"
    /\ pc = "import_csv"
    /\ chunk_num = 1
    /\ resp.op = "select"
    /\ Len(resp.visible) > ChunkSize
    /\ Len(file.rows) > ChunkSize

-----------------------------------------------------------------------------
(* Properties of paging through a table *)

\* two successful responses of get_interactions, the one sent before and the one
\* being sent, to requests with the same filters and limit
SamePaging ==
    /\ prev.op = "get_interactions" /\ prev.status = 200
    /\ resp.op = "get_interactions" /\ resp.status = 200
    /\ prev.req.params = resp.req.params
    /\ prev.req.limit = resp.req.limit

\* C18: on a table that does not change, with fixed filters and limit, the pages
\* 1..total_pages hold every matching row exactly once: two different pages
\* share no row, the two pages of a two-page result hold all matching rows, and
\* the same page asked twice holds the same rows in the same order
C18_PagesPartitionMatches ==
    SamePaging =>
        /\ prev.req.page = resp.req.page => resp.rows = prev.rows
        /\ prev.req.page # resp.req.page =>
               Range(prev.rows) \cap Range(resp.rows) = {}
        /\ ({prev.req.page, resp.req.page} = {1, 2} /\ resp.pagination.total_pages = 2) =>
               Range(prev.rows) \cup Range(resp.rows) =
                   Selected(revision, table, resp.req)

====
